---- MODULE Spec2Model ----
(***************************************************************************)
(* A model of iiif_htr: manifest.py (load_image), caller.py (get_image,    *)
(* get_image_from_dir, model_call, build_description,                      *)
(* model_call_synthetic).                                                  *)
(*                                                                         *)
(* Python values are modelled as follows.                                  *)
(*   dict      a function whose DOMAIN is the set of keys present          *)
(*   list      a sequence (Python index 0 is index 1 here)                 *)
(*   str       a sequence of text fragments; concatenation is \o           *)
(*   raise     a record [exc |-> name]; a value v is [exc |-> "none",      *)
(*             val |-> v]                                                  *)
(* A value that is used more than once is bound by ranging over its        *)
(* singleton set, \E r \in {e} or {F(x) : x \in {e}}, so that it is         *)
(* computed once.                                                          *)
(***************************************************************************)
EXTENDS Integers, Sequences, FiniteSets, TLC

VARIABLES
    pc,          \* position of the caller's script
    manifest,    \* the parsed manifest (manifest.py)
    max_height,  \* load_image argument
    max_width,   \* load_image argument
    images,      \* load_image's return value
    fn,          \* the function of caller.py that ran last
    img,         \* <<width, height>> of the decoded image
    ret,         \* what that function returned or raised
    net,         \* the network and disk requests it made, in order
    args,        \* the arguments it was called with
    client,      \* what the model endpoint behind the client answers
    data_model,  \* the pydantic model class: its fields, in declared order
    syn,         \* what model_call_synthetic returned or raised
    description  \* build_description's return value

manifestVars == <<manifest, max_height, max_width, images>>

callVars == <<fn, img, ret, net, args, client, data_model, syn, description>>

vars == <<pc, manifestVars, callVars>>

----------------------------------------------------------------------------
(* Python helpers *)

Empty == [k \in {} |-> 0]

Ok(v) == [exc |-> "none", val |-> v]

Raise(e) == [exc |-> e]

Get(d, k, default) == IF k \in DOMAIN d THEN d[k] ELSE default

----------------------------------------------------------------------------
(* Bounds and sample inputs *)

MaxCanvases == 2

DefaultMax == 1000

ServiceThreshold == 2500

Thresholds == {DefaultMax, ServiceThreshold}

DimSamples ==
    { Empty,
      [height |-> 500, width |-> 400],
      [height |-> 1000, width |-> 1000],
      [height |-> 2500, width |-> 2500],
      [height |-> 3000, width |-> 2000],
      [width |-> 3000] }

ServiceSamples ==
    { Empty,
      [service |-> << >>],
      [service |-> << Empty >>],
      [service |-> << ("@id" :> <<"S">>) >>] }

IdSamples == { Empty, [id |-> <<"img">>] }

Bodies == { d @@ s @@ i : d \in DimSamples, s \in ServiceSamples, i \in IdSamples }

LabelPresent == [label |-> [none |-> <<"p1", "p2">>]]

LabelSamples ==
    { Empty,
      [label |-> Empty],
      [label |-> [en |-> <<"p1">>]],
      [label |-> [none |-> << >>]],
      LabelPresent }

WithBody(b) == [items |-> << [items |-> << [body |-> b] >>] >>]

LabelBodies ==
    { [height |-> 500, width |-> 400, id |-> <<"img">>],
      [height |-> 3000, width |-> 2000, id |-> <<"img">>,
       service |-> << ("@id" :> <<"S">>) >>] }

BrokenPaths ==
    { Empty,
      [items |-> << >>],
      [items |-> << Empty >>],
      [items |-> << [items |-> << >>] >>],
      [items |-> << [items |-> << Empty >>] >>] }

Canvases ==
    { WithBody(b) @@ LabelPresent : b \in Bodies }
      \cup { WithBody(b) @@ l : b \in LabelBodies, l \in LabelSamples }
      \cup { p @@ LabelPresent : p \in BrokenPaths }

Manifests ==
    { Empty } \cup
    { [items |-> s] : s \in UNION { [1..n -> Canvases] : n \in 0..MaxCanvases } }

----------------------------------------------------------------------------
(* manifest.py *)

\* ServiceUrl with the box written height first
ServiceUrlHeightFirst(service_url, mh, mw) ==
    service_url \o <<"/full/!", ToString(mh), ",", ToString(mw), "/0/default.jpg">>

\* f"{service_url}/full/!{max_width},{max_height}/0/default.jpg"
ServiceUrl(service_url, mh, mw) ==
    service_url \o <<"/full/!", ToString(mw), ",", ToString(mh), "/0/default.jpg">>

\* the if/else that picks the image URL
ImageUrl(image_info, height, width, mh, mw) ==
    IF "service" \in DOMAIN image_info /\ (height > mh \/ width > mw)
    THEN IF Len(image_info.service) = 0 THEN Raise("IndexError")
         ELSE IF "@id" \notin DOMAIN image_info.service[1] THEN Raise("KeyError")
         ELSE Ok(ServiceUrl(image_info.service[1]["@id"], mh, mw))
    ELSE IF "id" \notin DOMAIN image_info THEN Raise("KeyError")
         ELSE Ok(image_info.id)

\* canvas.get('label', {}).get('none', [''])[0]
CanvasLabel(canvas) ==
    LET none == Get(Get(canvas, "label", Empty), "none", <<"">>)
    IN  IF Len(none) = 0 THEN Raise("IndexError") ELSE Ok(none[1])

\* canvas['items'][0]['items'][0]['body']
CanvasBody(canvas) ==
    IF "items" \notin DOMAIN canvas THEN Raise("KeyError")
    ELSE IF Len(canvas.items) = 0 THEN Raise("IndexError")
    ELSE IF "items" \notin DOMAIN canvas.items[1] THEN Raise("KeyError")
    ELSE IF Len(canvas.items[1].items) = 0 THEN Raise("IndexError")
    ELSE IF "body" \notin DOMAIN canvas.items[1].items[1] THEN Raise("KeyError")
    ELSE Ok(canvas.items[1].items[1].body)

\* the body of the try block for one canvas
CanvasImage(canvas, mh, mw) ==
    LET body == CanvasBody(canvas)
    IN  IF body.exc # "none" THEN body
        ELSE LET image_info == body.val
                 height == Get(image_info, "height", 0)
                 width == Get(image_info, "width", 0)
                 image_url == ImageUrl(image_info, height, width, mh, mw)
                 label == CanvasLabel(canvas)
             IN  IF image_url.exc # "none" THEN image_url
                 ELSE IF label.exc # "none" THEN label
                 ELSE Ok(<<image_url.val, height, width, label.val>>)

\* the for loop: except (KeyError, IndexError): continue
RECURSIVE LoadLoop(_, _, _, _)
LoadLoop(canvases, mh, mw, acc) ==
    IF canvases = << >> THEN acc
    ELSE LET r == CanvasImage(Head(canvases), mh, mw)
         IN  LoadLoop(Tail(canvases), mh, mw,
                      IF r.exc \in {"KeyError", "IndexError"} THEN acc
                      ELSE Append(acc, r.val))

load_image(m, mh, mw) == LoadLoop(Get(m, "items", << >>), mh, mw, << >>)

----------------------------------------------------------------------------
(* The caller's script over a manifest *)

Init ==
    /\ pc = "start"
    /\ manifest = Empty
    /\ max_height = DefaultMax
    /\ max_width = DefaultMax
    /\ images = << >>
    /\ fn = "none"
    /\ img = <<0, 0>>
    /\ ret = [exc |-> "not called"]
    /\ net = << >>
    /\ args = Empty
    /\ client = Empty
    /\ data_model = << >>
    /\ syn = [exc |-> "not called"]
    /\ description = << >>

DownloadManifest ==
    /\ pc = "start"
    /\ \E m \in Manifests : manifest' = m
    /\ pc' = "loaded"
    /\ UNCHANGED <<max_height, max_width, images, callVars>>

LoadManifest ==
    /\ pc = "start"
    /\ \E m \in Manifests : manifest' = m
    /\ pc' = "loaded"
    /\ UNCHANGED <<max_height, max_width, images, callVars>>

LoadImage ==
    /\ pc = "loaded"
    /\ \E mh \in Thresholds, mw \in Thresholds :
          /\ max_height' = mh
          /\ max_width' = mw
          /\ images' = load_image(manifest, mh, mw)
    /\ pc' = "resolved"
    /\ UNCHANGED <<manifest, callVars>>

NextManifest == DownloadManifest \/ LoadManifest \/ LoadImage

SpecManifest == Init /\ [][NextManifest]_vars

----------------------------------------------------------------------------
(* What the manifest claims speak of, read off the manifest alone *)

Items(m) == Get(m, "items", << >>)

\* the fixed path items[0].items[0].body is there
PathOk(canvas) ==
    /\ "items" \in DOMAIN canvas
    /\ Len(canvas.items) > 0
    /\ "items" \in DOMAIN canvas.items[1]
    /\ Len(canvas.items[1].items) > 0
    /\ "body" \in DOMAIN canvas.items[1].items[1]

BodyOf(canvas) == canvas.items[1].items[1].body

Declared(body, k) == Get(body, k, 0)

\* a service entry and a declared dimension above its threshold
WantsService(body, mh, mw) ==
    /\ "service" \in DOMAIN body
    /\ (Declared(body, "height") > mh \/ Declared(body, "width") > mw)

\* the key the URL is read from is there
UsableUrl(body, mh, mw) ==
    IF WantsService(body, mh, mw)
    THEN Len(body.service) > 0 /\ "@id" \in DOMAIN body.service[1]
    ELSE "id" \in DOMAIN body

Resolves(canvas, mh, mw) == PathOk(canvas) /\ UsableUrl(BodyOf(canvas), mh, mw)

\* the label structure is there down to its first entry
LabelComplete(canvas) ==
    /\ "label" \in DOMAIN canvas
    /\ "none" \in DOMAIN canvas.label
    /\ Len(canvas.label.none) > 0

ExpectedLabel(canvas) == IF LabelComplete(canvas) THEN canvas.label.none[1] ELSE ""

\* the label lookup cannot index an empty 'none' list
LabelReadable(canvas) ==
    ("label" \in DOMAIN canvas /\ "none" \in DOMAIN canvas.label)
        => Len(canvas.label.none) > 0

BoxUrl(service_id, w, h) ==
    service_id \o <<"/full/!", ToString(w), ",", ToString(h), "/0/default.jpg">>

ExpectedUrl(body, mh, mw) ==
    IF WantsService(body, mh, mw)
    THEN BoxUrl(Get(body.service[1], "@id", <<"?">>), mw, mh)
    ELSE Get(body, "id", <<"?">>)

\* how many of the first i canvases satisfy Keep
CountUpTo(items, i, Keep(_)) == Cardinality({ j \in 1..i : Keep(items[j]) })

Resolved == pc = "resolved"

----------------------------------------------------------------------------
(* C1: for every manifest whose canvases are each well-formed or broken   *)
(* somewhere on the path items[0].items[0].body, load_image returns one    *)
(* entry per well-formed canvas, in manifest order, and none for a broken  *)
(* one; the result length is total canvases minus broken canvases.         *)
C1_OnePerWellFormed ==
    Resolved =>
        LET items == Items(manifest)
            R(c) == Resolves(c, max_height, max_width)
            good == SelectSeq(items, PathOk)
        IN  (\A i \in 1..Len(items) : R(items[i]) \/ ~PathOk(items[i]))
              => /\ Len(images) = Len(good)
                 /\ \A k \in 1..Len(good) :
                       /\ images[k][1] = ExpectedUrl(BodyOf(good[k]), max_height, max_width)
                       /\ images[k][2] = Declared(BodyOf(good[k]), "height")
                       /\ images[k][3] = Declared(BodyOf(good[k]), "width")

C7_IndependentThresholds ==
    (Resolved /\ max_height = ServiceThreshold /\ max_width = ServiceThreshold) =>
        LET items == Items(manifest)
        IN  (Len(images) = Len(items)) =>
              \A i \in 1..Len(items) :
                 LET b == BodyOf(items[i])
                 IN  images[i][1] =
                        IF WantsService(b, ServiceThreshold, ServiceThreshold)
                        THEN BoxUrl(b.service[1]["@id"], DefaultMax, DefaultMax)
                        ELSE b.id

(* C9: every canvas whose image body resolves is emitted, with the first   *)
(* entry of label.none as its label when that entry exists and the empty   *)
(* string when the label structure is absent or incomplete.                *)
C9_LabelDefault ==
    Resolved =>
        LET items == Items(manifest)
            R(c) == Resolves(c, max_height, max_width)
        IN  \A i \in 1..Len(items) :
              R(items[i]) =>
                LET k == CountUpTo(items, i, R)
                IN  /\ k <= Len(images)
                    /\ images[k][4] = ExpectedLabel(items[i])

----------------------------------------------------------------------------
(* Python float arithmetic: IEEE 754 binary64, round to nearest, ties to   *)
(* even. A positive float is [hi, mid, lo, exp]: its 53-bit significand is *)
(* hi * 2^36 + mid * 2^18 + lo, with 2^16 <= hi < 2^17 and mid, lo < 2^18, *)
(* and its value is the significand times 2^exp. Three limbs keep every    *)
(* intermediate result of the operations below under 2^31 for operands    *)
(* under 2^12, which covers image sides up to 4095.                        *)

Limb == 262144

HalfLimb == 131072

Significand(hi, mid, lo, exp) == [hi |-> hi, mid |-> mid, lo |-> lo, exp |-> exp]

\* the float one unit in the last place above f
NextUp(f) ==
    IF f.lo + 1 < Limb THEN Significand(f.hi, f.mid, f.lo + 1, f.exp)
    ELSE IF f.mid + 1 < Limb THEN Significand(f.hi, f.mid + 1, 0, f.exp)
    ELSE IF f.hi + 1 < HalfLimb THEN Significand(f.hi + 1, 0, 0, f.exp)
    ELSE Significand(HalfLimb \div 2, 0, 0, f.exp + 1)

\* the number of bits of n > 0
BitLength(n) == CHOOSE k \in 1..31 : 2^(k - 1) <= n /\ (k = 31 \/ n < 2^k)

\* a / b for ints a, b > 0: the quotient's first 53 bits, rounded once
\* (int / int is correctly rounded)
TrueDiv(a, b) ==
    LET s == IF a >= b THEN BitLength(a \div b) - 1
             ELSE CHOOSE k \in 1..30 : b <= a * 2^k /\ a * 2^k < 2 * b
        num == IF a >= b THEN a ELSE a * 2^s
        den == IF a >= b THEN b * 2^s ELSE b
        r0 == num - den
        d1 == (r0 * Limb) \div den
        r1 == (r0 * Limb) % den
        d2 == (r1 * Limb) \div den
        r2 == (r1 * Limb) % den
        d3 == (r2 * 65536) \div den
        r3 == (r2 * 65536) % den
        q == Significand(65536 + d1 \div 4,
                         (d1 % 4) * 65536 + d2 \div 4,
                         (d2 % 4) * 65536 + d3,
                         (IF a >= b THEN s ELSE 0 - s) - 52)
    IN  IF 2 * r3 > den \/ (2 * r3 = den /\ d3 % 2 = 1) THEN NextUp(q) ELSE q

\* n * f for an int n > 0 (the int converts exactly): the exact product,
\* rounded once
MulInt(n, f) ==
    LET t0 == n * f.lo
        t1 == n * f.mid + t0 \div Limb
        t2 == n * f.hi + t1 \div Limb
        p0 == t0 % Limb
        p1 == t1 % Limb
        sh == BitLength(t2) - 17
        cut == 2^sh
        drop == p0 % cut
        k == Significand(t2 \div cut,
                         p1 \div cut + (t2 % cut) * (Limb \div cut),
                         p0 \div cut + (p1 % cut) * (Limb \div cut),
                         f.exp + sh)
    IN  IF sh > 0 /\ (2 * drop > cut \/ (2 * drop = cut /\ k.lo % 2 = 1))
        THEN NextUp(k) ELSE k

\* f < g
Less(f, g) ==
    \/ f.exp < g.exp
    \/ /\ f.exp = g.exp
       /\ \/ f.hi < g.hi
          \/ f.hi = g.hi /\ f.mid < g.mid
          \/ f.hi = g.hi /\ f.mid = g.mid /\ f.lo < g.lo

\* min(f, g)
Min(f, g) == IF Less(g, f) THEN g ELSE f

One == Significand(65536, 0, 0, 0 - 52)

\* int(f), for f below 2^17
Trunc(f) ==
    IF f.exp + 36 >= 0 THEN f.hi * 2^(f.exp + 36)
    ELSE IF f.exp + 53 <= 0 THEN 0
    ELSE f.hi \div 2^(0 - f.exp - 36)

----------------------------------------------------------------------------
(* caller.py: get_image, get_image_from_dir *)

max_size == 1000

\* ratio = min(max_size/img.width, max_size/img.height); the size after
\* "if ratio < 1: new_size = (int(img.width * ratio), int(img.height * ratio))"
NewSize(width, height, ratio) ==
    IF Less(ratio, One)
    THEN <<Trunc(MulInt(width, ratio)), Trunc(MulInt(height, ratio))>>
    ELSE <<width, height>>

ResizedSize(width, height) ==
    CHOOSE size \in { NewSize(width, height, ratio) :
                        ratio \in {Min(TrueDiv(max_size, width), TrueDiv(max_size, height))} } :
        TRUE

\* img.save(img_byte_arr, format='JPEG'); the bytes stand for the image in them
Jpeg(size) == [format |-> "JPEG", size |-> size]

\* Python values of the image_url / image_path arguments
None == [kind |-> "None"]

Str(fragments) == [kind |-> "str", str |-> fragments]

Tuple(items) == [kind |-> "tuple", items |-> items]

\* bool(x): None, '' and () are falsy
Truthy(x) ==
    CASE x.kind = "None" -> FALSE
      [] x.kind = "str" -> x.str # << >>
      [] x.kind = "tuple" -> x.items # << >>

\* "if isinstance(image_url, tuple): image_url = image_url[0]"
UrlOf(image_url) == IF image_url.kind = "tuple" THEN Str(image_url.items[1]) ELSE image_url

\* env: what requests.get / Image.open find: [fetch, size]
get_image(image_url, env) ==
    LET calls == << [call |-> "requests.get", target |-> UrlOf(image_url)] >>
    IN  IF env.fetch # "ok" THEN [exc |-> env.fetch, net |-> calls]
        ELSE [exc |-> "none", net |-> calls,
              val |-> Jpeg(ResizedSize(env.size[1], env.size[2]))]

get_image_from_dir(image_path, env) ==
    LET calls == << [call |-> "Image.open", target |-> image_path] >>
    IN  IF env.fetch # "ok" THEN [exc |-> env.fetch, net |-> calls]
        ELSE [exc |-> "none", net |-> calls,
              val |-> Jpeg(ResizedSize(env.size[1], env.size[2]))]

----------------------------------------------------------------------------
(* Fetching one image *)

Dims == {400, 531, 1000, 1001, 1062, 1500, 2000, 2124, 3000}

ImageSizes == Dims \X Dims

ImageEnvs ==
    { [fetch |-> "ok", size |-> sz] : sz \in ImageSizes }
      \cup { [fetch |-> e, size |-> <<0, 0>>] : e \in {"FetchError", "DecodeError"} }

PageUrl == <<"https://", "host", "/page.jpg">>

UrlArgs == { Str(PageUrl), Tuple(<<PageUrl, 3000, 2000, "p1">>) }

PathArgs == { Str(<<"pages/", "p1.jpg">>) }

GetImage ==
    /\ pc = "start"
    /\ \E u \in UrlArgs, e \in ImageEnvs :
          \E r \in {get_image(u, e)} :
              /\ args' = [image_url |-> u]
              /\ img' = e.size
              /\ ret' = IF r.exc = "none" THEN Ok(r.val) ELSE Raise(r.exc)
              /\ net' = r.net
    /\ fn' = "get_image"
    /\ pc' = "done"
    /\ UNCHANGED <<manifestVars, client, data_model, syn, description>>

GetImageFromDir ==
    /\ pc = "start"
    /\ \E p \in PathArgs, e \in ImageEnvs :
          \E r \in {get_image_from_dir(p, e)} :
              /\ args' = [image_path |-> p]
              /\ img' = e.size
              /\ ret' = IF r.exc = "none" THEN Ok(r.val) ELSE Raise(r.exc)
              /\ net' = r.net
    /\ fn' = "get_image_from_dir"
    /\ pc' = "done"
    /\ UNCHANGED <<manifestVars, client, data_model, syn, description>>

NextImage == GetImage \/ GetImageFromDir

SpecImage == Init /\ [][NextImage]_vars

Larger(a, b) == IF a >= b THEN a ELSE b

Abs(x) == IF x < 0 THEN 0 - x ELSE x

(* C5: a decoded image with a side above 1000 comes out with its larger    *)
(* side equal to 1000, no side above 1000 and its aspect ratio kept within *)
(* one pixel; an image within 1000x1000 keeps its size.                    *)
C5_ResizeBound ==
    (pc = "done" /\ fn \in {"get_image", "get_image_from_dir"} /\ ret.exc = "none") =>
        LET w == img[1]
            h == img[2]
            ow == ret.val.size[1]
            oh == ret.val.size[2]
        IN  IF w > max_size \/ h > max_size
            THEN /\ Larger(ow, oh) = max_size
                 /\ ow <= max_size
                 /\ oh <= max_size
                 /\ IF w >= h THEN Abs(oh * w - h * ow) <= w
                              ELSE Abs(ow * h - w * oh) <= h
            ELSE <<ow, oh>> = <<w, h>>

----------------------------------------------------------------------------
(* Text. A str is a sequence of fragments; the fragments that matter:      *)
(*   "FENCE"  three backticks    "json"  the word after an opening fence   *)
(*   " " "\n"  whitespace        "{" "}" "," "\"" "null"  JSON tokens      *)
(*   "\"transcription\":" "\"human_remains\":"  an object key and colon    *)
(* Any other fragment is plain text.                                       *)

Fence == "FENCE"

Quote == "\""

Whitespace == {" ", "\n"}

KeyToken(name) ==
    CASE name = "transcription" -> "\"transcription\":"
      [] name = "human_remains" -> "\"human_remains\":"
      [] OTHER -> "\"?\":"

KeyNames == {"transcription", "human_remains"}

\* str.replace(old, ""): leftmost non-overlapping matches, no rescan
RECURSIVE Remove(_, _)
Remove(text, old) ==
    IF Len(text) < Len(old) THEN text
    ELSE IF SubSeq(text, 1, Len(old)) = old
         THEN Remove(SubSeq(text, Len(old) + 1, Len(text)), old)
         ELSE <<Head(text)>> \o Remove(Tail(text), old)

\* str.strip()
RECURSIVE Strip(_)
Strip(text) ==
    IF text = << >> THEN text
    ELSE IF Head(text) \in Whitespace THEN Strip(Tail(text))
    ELSE IF text[Len(text)] \in Whitespace THEN Strip(SubSeq(text, 1, Len(text) - 1))
    ELSE text

\* response_text.replace(FENCE + "json", "").replace(FENCE, "").strip()
CleanResponse(text) == Strip(Remove(Remove(text, <<Fence, "json">>), <<Fence>>))

----------------------------------------------------------------------------
(* pydantic: data_model.model_validate_json(text).model_dump()             *)

\* the first index from i on that holds no whitespace
RECURSIVE SkipWs(_, _)
SkipWs(text, i) ==
    IF i <= Len(text) /\ text[i] \in Whitespace THEN SkipWs(text, i + 1) ELSE i

\* the index of the quote closing a string whose content starts at i, or 0
RECURSIVE ClosingQuote(_, _)
ClosingQuote(text, i) ==
    IF i > Len(text) \/ text[i] = "\n" THEN 0
    ELSE IF text[i] = Quote THEN i
    ELSE ClosingQuote(text, i + 1)

\* a JSON value at i: [ok, val, next]
JsonValue(text, i) ==
    IF i > Len(text) THEN [ok |-> FALSE]
    ELSE IF text[i] = "null" THEN [ok |-> TRUE, val |-> None, next |-> i + 1]
    ELSE IF text[i] = Quote
         THEN LET j == ClosingQuote(text, i + 1)
              IN  IF j = 0 THEN [ok |-> FALSE]
                  ELSE [ok |-> TRUE, val |-> Str(SubSeq(text, i + 1, j - 1)),
                        next |-> j + 1]
    ELSE [ok |-> FALSE]

\* the members of a JSON object from i on, up to its "}" and the end of text
RECURSIVE JsonMembers(_, _, _)
JsonMembers(text, i, obj) ==
    LET j == SkipWs(text, i)
    IN  IF j > Len(text) THEN [ok |-> FALSE]
        ELSE IF \E k \in KeyNames : text[j] = KeyToken(k)
        THEN LET name == CHOOSE k \in KeyNames : text[j] = KeyToken(k)
                 v == JsonValue(text, SkipWs(text, j + 1))
             IN  IF ~v.ok THEN [ok |-> FALSE]
                 ELSE LET n == SkipWs(text, v.next)
                          seen == (name :> v.val) @@ obj
                      IN  IF n > Len(text) THEN [ok |-> FALSE]
                          ELSE IF text[n] = "," THEN JsonMembers(text, n + 1, seen)
                          ELSE IF text[n] = "}" /\ SkipWs(text, n + 1) > Len(text)
                               THEN [ok |-> TRUE, obj |-> seen]
                          ELSE [ok |-> FALSE]
        ELSE [ok |-> FALSE]

\* json -> the object's members: [ok, obj]
JsonObject(text) ==
    LET i == SkipWs(text, 1)
    IN  IF i > Len(text) \/ text[i] # "{" THEN [ok |-> FALSE]
        ELSE LET j == SkipWs(text, i + 1)
             IN  IF j <= Len(text) /\ text[j] = "}" /\ SkipWs(text, j + 1) > Len(text)
                 THEN [ok |-> TRUE, obj |-> Empty]
                 ELSE JsonMembers(text, i + 1, Empty)

\* a value fits a field's annotation
Fits(val, annotation) ==
    CASE annotation = "str" -> val.kind = "str"
      [] annotation = "Optional[str]" -> val.kind \in {"str", "None"}
      [] OTHER -> FALSE

\* every field is there with a fitting value, or is optional
FieldsValid(fields, obj) ==
    \A i \in 1..Len(fields) :
        IF fields[i].name \in DOMAIN obj
        THEN Fits(obj[fields[i].name], fields[i].annotation)
        ELSE ~fields[i].required

\* model_dump(): every declared field, absent optional ones as None
Dump(fields, obj) ==
    [n \in { fields[i].name : i \in 1..Len(fields) } |-> Get(obj, n, None)]

\* model_validate_json(text).model_dump(): the record, or ValidationError
model_validate_json(fields, text) ==
    LET parsed == JsonObject(text)
    IN  IF ~parsed.ok THEN Raise("ValidationError")
        ELSE IF ~FieldsValid(fields, parsed.obj) THEN Raise("ValidationError")
        ELSE Ok(Dump(fields, parsed.obj))

----------------------------------------------------------------------------
(* caller.py: model_call, build_description, model_call_synthetic *)

max_tokens == 4000

DefaultModel == "google/gemini-1.0-pro-vision"

Temperature == "0.5"

\* messages, with the extra content parts appended
Messages(structured_prompt, parts) ==
    << [role |-> "user",
        max_tokens |-> max_tokens,
        response_format |-> [type |-> "json_object"],
        content |-> << [type |-> "text", text |-> structured_prompt] >> \o parts] >>

\* client.chat.completions.create(model=, messages=, temperature=)
CreateRequest(model, messages) ==
    [call |-> "chat.completions.create",
     target |-> [model |-> model, messages |-> messages, temperature |-> Temperature]]

\* f"data:image/jpeg;base64,{base64.b64encode(img_byte_arr).decode('utf-8')}"
DataUri(img_byte_arr) == [prefix |-> "data:image/jpeg;base64,", b64 |-> img_byte_arr]

\* ImagePart testing "is not None" where the code tests truth
ImagePartIsNotNone(a, env) ==
    IF a.method # "transcription" THEN [exc |-> "none", net |-> << >>, parts |-> << >>]
    ELSE IF a.image_url.kind # "None" \/ a.image_path.kind # "None"
    THEN LET r == IF a.image_url.kind # "None" THEN get_image(a.image_url, env)
                  ELSE get_image_from_dir(a.image_path, env)
         IN  IF r.exc # "none" THEN [exc |-> r.exc, net |-> r.net]
             ELSE [exc |-> "none", net |-> r.net,
                   parts |-> << [type |-> "image_url",
                                 image_url |-> [url |-> DataUri(r.val)]] >>]
    ELSE [exc |-> "ValueError", net |-> << >>]

\* the "if method == 'transcription'" block: [exc, net, parts]
ImagePart(a, env) ==
    IF a.method # "transcription" THEN [exc |-> "none", net |-> << >>, parts |-> << >>]
    ELSE IF Truthy(a.image_url) \/ Truthy(a.image_path)
    THEN LET r == IF Truthy(a.image_url) THEN get_image(a.image_url, env)
                  ELSE get_image_from_dir(a.image_path, env)
         IN  IF r.exc # "none" THEN [exc |-> r.exc, net |-> r.net]
             ELSE [exc |-> "none", net |-> r.net,
                   parts |-> << [type |-> "image_url",
                                 image_url |-> [url |-> DataUri(r.val)]] >>]
    ELSE [exc |-> "ValueError", net |-> << >>]

\* HandleResponse degrading to the cleaned text instead of the raw one
HandleResponseCleaned(content, fields) ==
    LET response_text == CleanResponse(content)
        r == model_validate_json(fields, response_text)
    IN  IF r.exc = "none" THEN r.val
        ELSE [transcription |-> Str(response_text), human_remains |-> None]

\* the try/except around the response in model_call
HandleResponse(content, fields) ==
    LET response_text == CleanResponse(content)
        r == model_validate_json(fields, response_text)
    IN  IF r.exc = "none" THEN r.val
        ELSE [transcription |-> Str(content), human_remains |-> None]

\* HandleSynthetic without the fence cleaning
HandleSyntheticRaw(content, fields) ==
    LET r == model_validate_json(fields, content)
    IN  IF r.exc = "none" THEN r.val ELSE None

\* the try/except around the response in model_call_synthetic
HandleSynthetic(content, fields) ==
    LET response_text == CleanResponse(content)
        r == model_validate_json(fields, response_text)
    IN  IF r.exc = "none" THEN r.val ELSE None

\* a: the arguments; endpoint: [create, content]; env: what the image fetch finds
CallWith(a, fields, endpoint, part) ==
    IF part.exc # "none" THEN [exc |-> part.exc, net |-> part.net]
    ELSE LET request == CreateRequest(a.model, Messages(a.structured_prompt, part.parts))
             calls == part.net \o <<request>>
         IN  IF endpoint.create # "ok" THEN [exc |-> endpoint.create, net |-> calls]
             ELSE [exc |-> "none", net |-> calls,
                   val |-> HandleResponse(endpoint.content, fields)]

model_call(a, fields, endpoint, env) ==
    CHOOSE r \in { CallWith(a, fields, endpoint, part) : part \in {ImagePart(a, env)} } : TRUE

model_call_synthetic(a, fields, endpoint) ==
    LET request == CreateRequest(a.model, Messages(a.structured_prompt, << >>))
    IN  IF endpoint.create # "ok" THEN [exc |-> endpoint.create, net |-> <<request>>]
        ELSE [exc |-> "none", net |-> <<request>>,
              val |-> HandleSynthetic(endpoint.content, fields)]

\* str(field.annotation)
AnnotationText(annotation) ==
    IF annotation = "str" THEN <<"<class ", "str", ">">> ELSE <<"typing.", annotation>>

\* str(field.description)
DescriptionText(d) == IF d.kind = "None" THEN <<"None">> ELSE d.str

\* f"        {field_name}: {field.annotation} - {field.description}"
FieldLine(field) ==
    <<"        ", field.name, ": ">> \o AnnotationText(field.annotation)
        \o <<" - ">> \o DescriptionText(field.description)

\* "\n".join(lines)
RECURSIVE JoinLines(_)
JoinLines(lines) ==
    IF lines = << >> THEN << >>
    ELSE IF Len(lines) = 1 THEN lines[1]
    ELSE lines[1] \o <<"\n">> \o JoinLines(Tail(lines))

\* build_description walking the fields last to first
build_description_reversed(fields) ==
    JoinLines([i \in 1..Len(fields) |-> FieldLine(fields[Len(fields) + 1 - i])])

build_description(fields) ==
    JoinLines([i \in 1..Len(fields) |-> FieldLine(fields[i])])

----------------------------------------------------------------------------
(* Calling the model *)

MaxContent == 2

Field(name, annotation, desc, required) ==
    [name |-> name, annotation |-> annotation, description |-> desc, required |-> required]

\* transcription: str, human_remains: Optional[str] = None
Transcription ==
    << Field("transcription", "str", Str(<<"text">>), TRUE),
       Field("human_remains", "Optional[str]", None, FALSE) >>

\* both fields required
Entities ==
    << Field("transcription", "str", Str(<<"text">>), TRUE),
       Field("human_remains", "str", Str(<<"remains">>), TRUE) >>

DataModels == {Transcription, Entities}

\* what a JSON string may hold between its quotes
Contents ==
    UNION { [1..n -> {"hello", Fence, "json"}] : n \in 0..MaxContent }

StringOf(c) == <<Quote>> \o c \o <<Quote>>

Hello == StringOf(<<"hello">>)

Payloads ==
    { <<"{", KeyToken("transcription")>> \o StringOf(c) \o <<"}">> : c \in Contents }
      \cup { <<"{", KeyToken("transcription")>> \o Hello
                \o <<",", KeyToken("human_remains"), "null", "}">>,
             <<"{", KeyToken("transcription")>> \o Hello
                \o <<",", " ", KeyToken("human_remains")>> \o StringOf(<<"yes">>) \o <<"}">>,
             <<"{", " ", KeyToken("transcription"), " ">> \o Hello \o <<"\n", "}">>,
             <<"{", KeyToken("transcription"), "null", "}">>,
             <<"{", KeyToken("human_remains"), "null", "}">>,
             <<"{", KeyToken("transcription")>> \o Hello \o <<",", "}">>,
             <<"{", KeyToken("transcription"), Quote, "hello", "}">>,
             <<"{", "}">>,
             <<"not json at all">>,
             << >> }

Wrap(p) ==
    { p,
      <<Fence, "json", "\n">> \o p \o <<"\n", Fence>>,
      <<Fence, "json">> \o p \o <<Fence>>,
      <<Fence, "\n">> \o p \o <<"\n", Fence>>,
      <<"\n", " ">> \o p \o <<"\n">>,
      <<"Here:", "\n", Fence, "json", "\n">> \o p \o <<"\n", Fence>> }

Responses == UNION { Wrap(p) : p \in Payloads }

Endpoints ==
    { [create |-> "ok", content |-> r] : r \in Responses }
      \cup { [create |-> "APIError", content |-> << >>] }

Prompt == <<"Transcribe the page as JSON">>

CallArgs ==
    { [structured_prompt |-> Prompt, model |-> DefaultModel, method |-> m,
       image_url |-> u, image_path |-> p] :
         m \in {"transcription", "entities"},
         u \in {None, Str(<< >>)} \cup UrlArgs,
         p \in {None, Str(<< >>)} \cup PathArgs }

SyntheticArgs == { [structured_prompt |-> Prompt, model |-> DefaultModel] }

CallImageEnvs ==
    { [fetch |-> "ok", size |-> <<3000, 2000>>], [fetch |-> "FetchError", size |-> <<0, 0>>] }

NotCalled(r) == r.exc = "not called"

\* connect_to_client(location, project_id), and the data model the caller passes on
ConnectToClient ==
    /\ pc = "start"
    /\ \E e \in Endpoints, dm \in DataModels :
          /\ client' = e
          /\ data_model' = dm
    /\ pc' = "connected"
    /\ UNCHANGED <<manifestVars, fn, img, ret, net, args, syn, description>>

ModelCall ==
    /\ pc = "connected"
    /\ NotCalled(ret)
    /\ \E a \in CallArgs, e \in CallImageEnvs :
          \E r \in {model_call(a, data_model, client, e)} :
              /\ args' = a
              /\ img' = e.size
              /\ ret' = IF r.exc = "none" THEN Ok(r.val) ELSE Raise(r.exc)
              /\ net' = r.net
    /\ fn' = "model_call"
    /\ UNCHANGED <<pc, manifestVars, client, data_model, syn, description>>

ModelCallSynthetic ==
    /\ pc = "connected"
    /\ NotCalled(syn)
    /\ \E a \in SyntheticArgs :
          \E r \in {model_call_synthetic(a, data_model, client)} :
              /\ syn' = IF r.exc = "none" THEN Ok(r.val) ELSE Raise(r.exc)
              /\ net' = r.net
    /\ fn' = "model_call_synthetic"
    /\ UNCHANGED <<pc, manifestVars, img, ret, args, client, data_model, description>>

NextCall == ConnectToClient \/ ModelCall \/ ModelCallSynthetic

SpecCall == Init /\ [][NextCall]_vars

----------------------------------------------------------------------------
(* Describing a schema *)

MaxFields == 2

FieldNames == {"transcription", "human_remains", "date"}

Descriptions ==
    { None,
      Str(<<"text">>),
      Str(<<"the ", "transcription", " of the page">>),
      Str(<<"first line", "\n", "second line">>) }

SchemaFields ==
    { Field(n, a, d, TRUE) : n \in FieldNames, a \in {"str", "Optional[str]"},
                             d \in Descriptions }

Schemas ==
    { s \in UNION { [1..n -> SchemaFields] : n \in 0..MaxFields } :
        \A i, j \in 1..Len(s) : s[i].name = s[j].name => i = j }

BuildDescription ==
    /\ pc = "start"
    /\ \E dm \in Schemas :
          /\ data_model' = dm
          /\ description' = build_description(dm)
    /\ fn' = "build_description"
    /\ pc' = "done"
    /\ UNCHANGED <<manifestVars, img, ret, net, args, client, syn>>

NextSchema == BuildDescription

SpecSchema == Init /\ [][NextSchema]_vars

----------------------------------------------------------------------------
(* What the call claims speak of *)

Called(r) == ~NotCalled(r)

\* model_call received the endpoint's answer
Answered ==
    /\ Called(ret)
    /\ client.create = "ok"
    /\ ret.exc \notin {"ValueError", "FetchError", "DecodeError"}

Validation == model_validate_json(data_model, CleanResponse(client.content))

Degraded == [transcription |-> Str(client.content), human_remains |-> None]

NoImage(a) == ~Truthy(a.image_url) /\ ~Truthy(a.image_path)

FencedObject == <<Fence, "json", "\n", "{", KeyToken("transcription"), "null", "}", "\n", Fence>>

C4_NoImageNoRequest ==
    (fn = "model_call" /\ args.method = "transcription" /\ NoImage(args)) =>
        /\ ret = Raise("ValueError")
        /\ net = << >>

C4_Witness ==
    /\ fn = "model_call"
    /\ args.method = "transcription"
    /\ args.image_url = Str(<< >>)
    /\ args.image_path = None
    /\ ret = Raise("ValueError")
    /\ net = << >>

Fenced(text) ==
    /\ Len(text) >= 3
    /\ text[1] = Fence
    /\ text[2] = "json"
    /\ text[Len(text)] = Fence

Inner(text) == SubSeq(text, 3, Len(text) - 1)

(* C8: for a response that is a valid JSON object wrapped in a markdown    *)
(* JSON fence, model_call returns exactly the record obtained by           *)
(* validating the bare object: stripping removes the fence markers only.   *)
C8_FenceOnly ==
    (Answered /\ Fenced(client.content)
       /\ model_validate_json(data_model, Inner(client.content)).exc = "none") =>
        ret = Ok(model_validate_json(data_model, Inner(client.content)).val)

----------------------------------------------------------------------------
(* What the schema claim speaks of *)

\* the lines of a text, as str.splitlines gives them
RECURSIVE SplitLines(_, _, _)
SplitLines(text, line, acc) ==
    IF text = << >> THEN (IF line = << >> THEN acc ELSE Append(acc, line))
    ELSE IF Head(text) = "\n" THEN SplitLines(Tail(text), << >>, Append(acc, line))
    ELSE SplitLines(Tail(text), Append(line, Head(text)), acc)

Lines(text) == SplitLines(text, << >>, << >>)

Count(name, line) == Cardinality({ i \in 1..Len(line) : line[i] = name })

Mentions(text, name) == \E i \in 1..Len(text) : text[i] = name

Described == fn = "build_description"

(* C10 as first stated: for every schema, build_description returns as     *)
(* many lines as the schema has fields, in declared order, each line       *)
(* containing its field's name exactly once.                               *)
C10_OneLinePerField ==
    Described =>
        /\ Len(Lines(description)) = Len(data_model)
        /\ \A i \in 1..Len(data_model) :
              Count(data_model[i].name, Lines(description)[i]) = 1

(* C10: for every schema whose descriptions hold no line break,            *)
(* build_description returns as many lines as the schema has fields, in    *)
(* declared order, each line containing its field's name: exactly once     *)
(* when the field's annotation and description do not mention the name.    *)
C10_OneLinePerFieldNoBreak ==
    (Described /\ \A i \in 1..Len(data_model) :
                     ~Mentions(DescriptionText(data_model[i].description), "\n")) =>
        /\ Len(Lines(description)) = Len(data_model)
        /\ \A i \in 1..Len(data_model) :
              LET f == data_model[i]
                  n == Count(f.name, Lines(description)[i])
              IN  /\ n >= 1
                  /\ (~Mentions(AnnotationText(f.annotation), f.name)
                        /\ ~Mentions(DescriptionText(f.description), f.name)) => n = 1

C10_Witness ==
    /\ Described
    /\ Len(data_model) = 2
    /\ description =
          <<"        ", "transcription", ": ", "<class ", "str", ">", " - ", "text", "\n",
            "        ", "human_remains", ": ", "typing.", "Optional[str]", " - ", "None">>

====
